---- MODULE Spec2Model ----
(***************************************************************************)
(* Chatmate: the chat route (buildResponse, summarizeConversation, POST,   *)
(* listed in README.md) and the chat page (page.tsx: sendMessage and the   *)
(* React state it drives).                                                 *)
(*                                                                         *)
(* Text is a sequence of one-character strings, so that the regular        *)
(* expressions, String.replace, trim and toLowerCase of the source are     *)
(* computed character by character.                                        *)
(***************************************************************************)
EXTENDS Integers, Sequences, FiniteSets, TLC

VARIABLES
    prompt, history, now, payload,   \* one call of buildResponse: its arguments, the clock, its result
    summary,                         \* the result of one call of summarizeConversation
    body, response,                  \* one call of POST: the request body and the response
    messages, input, isLoading, suggestions,  \* page.tsx: the React state of Home
    rendered,                        \* page.tsx: the state the callbacks of the last render closed over
    requests,                        \* page.tsx: the fetches that have not settled
    fetched                          \* page.tsx: what the fetch that settled last gave sendMessage

routeVars == <<prompt, history, now, payload, summary, body, response>>
pageVars == <<messages, input, isLoading, suggestions, rendered, requests, fetched>>
vars == <<prompt, history, now, payload, summary, body, response,
          messages, input, isLoading, suggestions, rendered, requests, fetched>>

(***************************************************************************)
(* Characters                                                              *)
(***************************************************************************)
LowerLetters ==
    {"a","b","c","d","e","f","g","h","i","j","k","l","m",
     "n","o","p","q","r","s","t","u","v","w","x","y","z"}

UpperToLower ==
    [c \in {"A","B","C","D","E","F","G","H","I","J","K","L","M",
            "N","O","P","Q","R","S","T","U","V","W","X","Y","Z"} |->
        CASE c = "A" -> "a" [] c = "B" -> "b" [] c = "C" -> "c" [] c = "D" -> "d"
          [] c = "E" -> "e" [] c = "F" -> "f" [] c = "G" -> "g" [] c = "H" -> "h"
          [] c = "I" -> "i" [] c = "J" -> "j" [] c = "K" -> "k" [] c = "L" -> "l"
          [] c = "M" -> "m" [] c = "N" -> "n" [] c = "O" -> "o" [] c = "P" -> "p"
          [] c = "Q" -> "q" [] c = "R" -> "r" [] c = "S" -> "s" [] c = "T" -> "t"
          [] c = "U" -> "u" [] c = "V" -> "v" [] c = "W" -> "w" [] c = "X" -> "x"
          [] c = "Y" -> "y" [] c = "Z" -> "z"]

Digits == {"0","1","2","3","4","5","6","7","8","9"}

\* \w of a JavaScript regular expression: [A-Za-z0-9_]
WordChars == LowerLetters \cup DOMAIN UpperToLower \cup Digits \cup {"_"}

\* \s of a JavaScript regular expression, and what String.trim removes
WhiteSpace == {" ", "\n", "\t"}

MinOf(S) == CHOOSE x \in S : \A y \in S : x <= y
MaxOf(S) == CHOOSE x \in S : \A y \in S : y <= x

(***************************************************************************)
(* String primitives                                                       *)
(***************************************************************************)
\* String.prototype.toLowerCase
toLowerCase(s) ==
    [i \in 1..Len(s) |-> IF s[i] \in DOMAIN UpperToLower THEN UpperToLower[s[i]] ELSE s[i]]

\* String.prototype.trim
trim(s) ==
    LET keep == {i \in 1..Len(s) : s[i] \notin WhiteSpace}
    IN  IF keep = {} THEN <<>> ELSE SubSeq(s, MinOf(keep), MaxOf(keep))

\* .replace(/\s+/g, " "): every maximal run of white space becomes one space
RECURSIVE collapseWhiteSpace(_, _)
collapseWhiteSpace(s, i) ==
    IF i > Len(s) THEN <<>>
    ELSE IF s[i] \notin WhiteSpace THEN <<s[i]>> \o collapseWhiteSpace(s, i + 1)
    ELSE IF i > 1 /\ s[i - 1] \in WhiteSpace THEN collapseWhiteSpace(s, i + 1)
    ELSE <<" ">> \o collapseWhiteSpace(s, i + 1)

\* sanitize that forgets to collapse the inner white space
sanitize_TrimOnly(value) == trim(value)

\* const sanitize = (value) => value.trim().replace(/\s+/g, " ")
sanitize(value) == collapseWhiteSpace(trim(value), 1)

\* the literal lit stands in s right after the first p characters
LitAt(s, p, lit) ==
    /\ p + Len(lit) <= Len(s)
    /\ \A k \in 1..Len(lit) : s[p + k] = lit[k]

\* \b after the first p characters of s
WordBoundary(s, p) ==
    (p >= 1 /\ s[p] \in WordChars) # (p < Len(s) /\ s[p + 1] \in WordChars)

\* RegExp.test of an alternation of literals, with \b before (left) and/or
\* after (right) the alternation
TestAlternation(s, alts, left, right) ==
    \E p \in 0..Len(s) : \E a \in alts :
        /\ LitAt(s, p, a)
        /\ left => WordBoundary(s, p)
        /\ right => WordBoundary(s, p + Len(a))

\* .replace(/a1|a2|.../gi, ""): scanning left to right, at each place the first
\* alternative (in the order written) that stands there is removed
RECURSIVE removeMatches(_, _, _, _)
removeMatches(s, low, p, alts) ==
    IF p >= Len(s) THEN <<>>
    ELSE LET hits == {k \in 1..Len(alts) : LitAt(low, p, alts[k])}
         IN  IF hits = {} THEN <<s[p + 1]>> \o removeMatches(s, low, p + 1, alts)
             ELSE removeMatches(s, low, p + Len(alts[MinOf(hits)]), alts)

replaceAllIgnoreCase(s, alts) == removeMatches(s, toLowerCase(s), 0, alts)

\* String.prototype.includes
includes(s, lit) == \E p \in 0..Len(s) : LitAt(s, p, lit)

(***************************************************************************)
(* The literals of the regular expressions                                 *)
(***************************************************************************)
kw_hello == <<"h", "e", "l", "l", "o">>
kw_hey == <<"h", "e", "y">>
kw_hi == <<"h", "i">>
kw_good == <<"g", "o", "o", "d">>
kw_morning == <<"m", "o", "r", "n", "i", "n", "g">>
kw_afternoon == <<"a", "f", "t", "e", "r", "n", "o", "o", "n">>
kw_evening == <<"e", "v", "e", "n", "i", "n", "g">>
kw_thank == <<"t", "h", "a", "n", "k">>
kw_thanks == <<"t", "h", "a", "n", "k", "s">>
kw_appreciate == <<"a", "p", "p", "r", "e", "c", "i", "a", "t", "e">>
kw_awesome == <<"a", "w", "e", "s", "o", "m", "e">>
kw_bye == <<"b", "y", "e">>
kw_goodbye == <<"g", "o", "o", "d", "b", "y", "e">>
kw_later == <<"l", "a", "t", "e", "r">>
kw_plan == <<"p", "l", "a", "n">>
kw_schedule == <<"s", "c", "h", "e", "d", "u", "l", "e">>
kw_timeline == <<"t", "i", "m", "e", "l", "i", "n", "e">>
kw_roadmap == <<"r", "o", "a", "d", "m", "a", "p">>
kw_idea == <<"i", "d", "e", "a">>
kw_ideas == <<"i", "d", "e", "a", "s">>
kw_brainstorm == <<"b", "r", "a", "i", "n", "s", "t", "o", "r", "m">>
kw_concept == <<"c", "o", "n", "c", "e", "p", "t">>
kw_help == <<"h", "e", "l", "p">>
kw_joke == <<"j", "o", "k", "e">>
kw_funny == <<"f", "u", "n", "n", "y">>
kw_laugh == <<"l", "a", "u", "g", "h">>
kw_weather == <<"w", "e", "a", "t", "h", "e", "r">>
kw_temperature == <<"t", "e", "m", "p", "e", "r", "a", "t", "u", "r", "e">>
kw_outside == <<"o", "u", "t", "s", "i", "d", "e">>
kw_time == <<"t", "i", "m", "e">>
kw_explain == <<"e", "x", "p", "l", "a", "i", "n">>
kw_teach == <<"t", "e", "a", "c", "h">>
kw_learn == <<"l", "e", "a", "r", "n">>
kw_understand == <<"u", "n", "d", "e", "r", "s", "t", "a", "n", "d">>
kw_summary == <<"s", "u", "m", "m", "a", "r", "y">>
kw_summarize == <<"s", "u", "m", "m", "a", "r", "i", "z", "e">>
kw_recap == <<"r", "e", "c", "a", "p">>
kw_expand == <<"e", "x", "p", "a", "n", "d">>
kw_thank_you == <<"t", "h", "a", "n", "k", " ", "y", "o", "u">>
kw_great_job == <<"g", "r", "e", "a", "t", " ", "j", "o", "b">>
kw_see_you == <<"s", "e", "e", " ", "y", "o", "u">>
kw_who_are_you == <<"w", "h", "o", " ", "a", "r", "e", " ", "y", "o", "u">>
kw_what_are_you == <<"w", "h", "a", "t", " ", "a", "r", "e", " ", "y", "o", "u">>
kw_introduce_yourself == <<"i", "n", "t", "r", "o", "d", "u", "c", "e", " ", "y", "o", "u", "r", "s", "e", "l", "f">>

(***************************************************************************)
(* Messages and payloads                                                   *)
(***************************************************************************)
\* A history entry as JSON delivers it.  kind "null" is a null entry, role
\* "undefined" an entry without a role; content.type tells whether content
\* is a string (then content.text is its text).
Entry(kind, role, type, text) ==
    [kind |-> kind, role |-> role, content |-> [type |-> type, text |-> text]]

\* type ChatMessage = { role: Role; content: string }
ChatMessage(role, text) == Entry("object", role, "string", text)

IsChatMessage(e) ==
    /\ e.kind = "object"
    /\ e.role \in {"user", "assistant"}
    /\ e.content.type = "string"

\* A reply: one of the fixed templates of the route; clause tells whether the
\* optional clause of the template is present, arg is the interpolated text.
Reply(template, clause, arg) == [template |-> template, clause |-> clause, arg |-> arg]

Fixed(template) == Reply(template, FALSE, <<>>)

Payload(r, s) == [reply |-> r, suggestions |-> s]

\* No payload: the call has not returned
NoPayload == Payload(Fixed("(pending)"), <<>>)

\* A TypeError thrown while the payload was built
Threw == Payload(Fixed("(TypeError)"), <<>>)

fallbackSuggestions ==
    << "What else can you help me with?",
       "Summarize our conversation so far.",
       "Give me a fresh idea to explore.",
       "Help me plan the next steps." >>

(***************************************************************************)
(* buildIdeasResponse, buildPlanResponse, summarizeConversation            *)
(***************************************************************************)
\* /plan|idea|ideas?|brainstorm|help/gi, alternatives in the order tried
IdeasStripped == <<kw_plan, kw_idea, kw_ideas, kw_idea, kw_brainstorm, kw_help>>

\* /plan|schedule|timeline|roadmap/gi
PlanStripped == <<kw_plan, kw_schedule, kw_timeline, kw_roadmap>>

ideasFocus(p) == trim(replaceAllIgnoreCase(p, IdeasStripped))

buildIdeasResponse(p) ==
    LET focus == ideasFocus(p)
    IN  Reply("Here are a few directions", focus # <<>>, focus)

planFocus(p) == sanitize(replaceAllIgnoreCase(p, PlanStripped))

buildPlanResponse(p) ==
    LET focus == planFocus(p)
    IN  Reply("Here's a simple structure", focus # <<>>, focus)

\* slice that keeps the first entries instead of the last: slice(0, -start)
slice_FromTheStart(s, start) ==
    SubSeq(s, 1, IF Len(s) < -start THEN Len(s) ELSE -start)

\* Array.prototype.slice(start) with one argument
slice(s, start) ==
    LET from == IF start < 0
                THEN (IF Len(s) + start < 0 THEN 0 ELSE Len(s) + start)
                ELSE (IF start > Len(s) THEN Len(s) ELSE start)
    IN  SubSeq(s, from + 1, Len(s))

\* `${n}` for the numbers a list of at most nine lines needs
DecimalDigit == <<"1", "2", "3", "4", "5", "6", "7", "8", "9">>

\* Array.prototype.join
RECURSIVE join(_, _)
join(lines, sep) ==
    IF lines = <<>> THEN <<>>
    ELSE IF Len(lines) = 1 THEN lines[1]
    ELSE lines[1] \o sep \o join(Tail(lines), sep)

\* the filter callback reads entry.role: a null entry throws
filterThrows(h) == \E i \in 1..Len(h) : h[i].kind = "null"

summarizeConversation(h) ==
    IF filterThrows(h) THEN Fixed("(TypeError)")
    ELSE
    LET users == SelectSeq(h, LAMBDA entry : entry.role = "user")
        last == slice(users, -3)
        important == [index \in 1..Len(last) |->
                        <<DecimalDigit[index], ".", " ">> \o sanitize(last[index].content.text)]
    IN  IF \E index \in 1..Len(last) : last[index].content.type # "string"
        THEN Fixed("(TypeError)")
        ELSE IF Len(important) = 0
        THEN Fixed("You've mostly been exploring the assistant's features so far.")
        ELSE Reply("Here's what I'm tracking", TRUE, join(important, <<"\n">>))

(***************************************************************************)
(* buildResponse                                                           *)
(***************************************************************************)
optionalSpace == {<<>>} \cup {<<c>> : c \in WhiteSpace}

\* /\b(hello|hey|hi|good\s?(morning|afternoon|evening))\b/
isGreeting(n) ==
    TestAlternation(n,
        {kw_hello, kw_hey, kw_hi} \cup
        {kw_good \o sp \o part : sp \in optionalSpace,
                                 part \in {kw_morning, kw_afternoon, kw_evening}},
        TRUE, TRUE)

\* /\b(thank(s| you)|appreciate|great job|awesome)\b/ || /\bthanks?\b/
isThanks(n) ==
    \/ TestAlternation(n, {kw_thanks, kw_thank_you, kw_appreciate, kw_great_job, kw_awesome},
                       TRUE, TRUE)
    \/ TestAlternation(n, {kw_thanks, kw_thank}, TRUE, TRUE)

\* /\b(bye|goodbye|see you|later)\b/
isFarewell(n) == TestAlternation(n, {kw_bye, kw_goodbye, kw_see_you, kw_later}, TRUE, TRUE)

\* /\b(who are you|what are you|introduce yourself)\b/
isIdentity(n) ==
    TestAlternation(n, {kw_who_are_you, kw_what_are_you, kw_introduce_yourself}, TRUE, TRUE)

\* /\b(plan|schedule|timeline|roadmap)\b/
isPlan(n) == TestAlternation(n, {kw_plan, kw_schedule, kw_timeline, kw_roadmap}, TRUE, TRUE)

\* /\bidea|ideas|brainstorm|concept\b/ : \b binds to "idea" (before) and to
\* "concept" (after) only
isIdea(n) ==
    \/ TestAlternation(n, {kw_idea}, TRUE, FALSE)
    \/ TestAlternation(n, {kw_ideas, kw_brainstorm}, FALSE, FALSE)
    \/ TestAlternation(n, {kw_concept}, FALSE, TRUE)

\* /\b(joke|funny|laugh)\b/
isJoke(n) == TestAlternation(n, {kw_joke, kw_funny, kw_laugh}, TRUE, TRUE)

\* /\b(weather|temperature|outside)\b/
isWeather(n) == TestAlternation(n, {kw_weather, kw_temperature, kw_outside}, TRUE, TRUE)

\* /\btime\b/
isTime(n) == TestAlternation(n, {kw_time}, TRUE, TRUE)

\* /\b(explain|teach|learn|understand)\b/
isExplain(n) ==
    TestAlternation(n, {kw_explain, kw_teach, kw_learn, kw_understand}, TRUE, TRUE)

\* /\bsummary|summarize|recap\b/ : \b binds to "summary" (before) and to
\* "recap" (after) only
isSummary(n) ==
    \/ TestAlternation(n, {kw_summary}, TRUE, FALSE)
    \/ TestAlternation(n, {kw_summarize}, FALSE, FALSE)
    \/ TestAlternation(n, {kw_recap}, FALSE, TRUE)

\* find without .reverse(): the first entry of the role, not the last
findLast_WithoutReverse(list, role) ==
    LET hits == {i \in 1..Len(list) : list[i].kind # "null" /\ list[i].role = role}
    IN  IF hits = {} THEN 0 ELSE MinOf(hits)

\* find whose callback forgets the role: the last entry, whatever its role
findLast_AnyRole(list, role) ==
    LET hits == {i \in 1..Len(list) : list[i].kind # "null"}
    IN  IF hits = {} THEN 0 ELSE MaxOf(hits)

\* [...list].reverse().find((entry) => entry.role === role): the place of the
\* entry found (0: none), and whether a null entry is read first (which throws)
findLast(list, role) ==
    LET hits == {i \in 1..Len(list) : list[i].kind # "null" /\ list[i].role = role}
    IN  IF hits = {} THEN 0 ELSE MaxOf(hits)

findLastThrows(list, role) ==
    \E i \in (findLast(list, role) + 1)..Len(list) : list[i].kind = "null"

GreetingSuggestions ==
    << "Help me map out my next project.",
       "Teach me something new in five minutes.",
       "Turn this idea into action steps." >>

ThanksSuggestions ==
    << "Let's build on that idea.", "What should I tackle next?", "Summarize what we achieved." >>

FarewellSuggestions ==
    << "Draft a recap email for me.",
       "Share a quick productivity tip.",
       "Set up a follow-up checklist." >>

IdentitySuggestions ==
    << "Show me how you brainstorm.",
       "Help me plan something step-by-step.",
       "Summarize an article for me." >>

PlanSuggestions ==
    << "Convert that into a 7-day plan.",
       "List potential blockers I should watch out for.",
       "Suggest tools to stay on schedule." >>

IdeaSuggestions ==
    << "Expand on idea number two.",
       "Find an inspiring quote I can use.",
       "Outline the risks and mitigations." >>

JokeSuggestions ==
    << "Give me a motivational quote.",
       "Let's get serious again.",
       "Share a brainstorming icebreaker." >>

WeatherSuggestions ==
    << "Plan a day trip itinerary.",
       "Help me pack efficiently.",
       "Create a rainy-day backup plan." >>

TimeSuggestions ==
    << "Help me focus for the next 25 minutes.",
       "Break the next task into checkpoints.",
       "Plan my evening wind-down routine." >>

ExplainSuggestions ==
    << "Give me an analogy to understand it.",
       "Quiz me with a quick check.",
       "Show me the pros and cons." >>

SummarySuggestions ==
    << "Highlight key decisions.",
       "Outline next actions.",
       "Draft a message I can send to my team." >>

ExpandSuggestions ==
    << "List potential challenges we might hit.",
       "Suggest resources that could help.",
       "Turn this into a longer-form outline." >>

GreetingReply == Fixed("Hey! I'm right here.")
ThanksReply == Fixed("So glad that helped!")
FarewellReply == Fixed("Catch you later!")
IdentityReply == Fixed("I'm Chatmate")
JokeReply == Fixed("Sure! Why did the developer bring a ladder to work?")
WeatherReply == Fixed("I can't check the live weather")
ExplainReply == Fixed("Let's unpack that the simple way")
ExpandReply == Fixed("Let's zoom in")
TimeReply(clock) == Reply("It's currently", TRUE, clock)
FallbackReply(p) == Reply("Here's what I'm picking up", TRUE, sanitize(p))

\* The branches of buildResponse in the order of its if statements, each with
\* its condition and the payload it returns
BranchOrder ==
    << "greeting", "thanks", "farewell", "identity", "plan", "idea", "joke",
       "weather", "time", "explain", "summary", "expand", "fallback" >>

BranchHolds(b, n, h) ==
    CASE b = "greeting" -> isGreeting(n)
      [] b = "thanks" -> isThanks(n)
      [] b = "farewell" -> isFarewell(n)
      [] b = "identity" -> isIdentity(n)
      [] b = "plan" -> isPlan(n)
      [] b = "idea" -> isIdea(n)
      [] b = "joke" -> isJoke(n)
      [] b = "weather" -> isWeather(n)
      [] b = "time" -> isTime(n)
      [] b = "explain" -> isExplain(n)
      [] b = "summary" -> isSummary(n)
      [] b = "expand" -> includes(n, kw_expand) /\ \E i \in 1..Len(h) : h[i].role = "assistant"
      [] b = "fallback" -> TRUE

BranchPayload(b, p, h, clock) ==
    CASE b = "greeting" -> Payload(GreetingReply, GreetingSuggestions)
      [] b = "thanks" -> Payload(ThanksReply, ThanksSuggestions)
      [] b = "farewell" -> Payload(FarewellReply, FarewellSuggestions)
      [] b = "identity" -> Payload(IdentityReply, IdentitySuggestions)
      [] b = "plan" -> Payload(buildPlanResponse(p), PlanSuggestions)
      [] b = "idea" -> Payload(buildIdeasResponse(p), IdeaSuggestions)
      [] b = "joke" -> Payload(JokeReply, JokeSuggestions)
      [] b = "weather" -> Payload(WeatherReply, WeatherSuggestions)
      [] b = "time" -> Payload(TimeReply(clock), TimeSuggestions)
      [] b = "explain" -> Payload(ExplainReply, ExplainSuggestions)
      [] b = "summary" -> Payload(summarizeConversation(h), SummarySuggestions)
      [] b = "expand" -> Payload(ExpandReply, ExpandSuggestions)
      [] b = "fallback" -> Payload(FallbackReply(p), fallbackSuggestions)

\* the payload of the first branch of order whose condition holds
FirstMatch(order, p, h, clock) ==
    LET n == toLowerCase(p)
        first == MinOf({i \in 1..Len(order) : BranchHolds(order[i], n, h)})
    IN  BranchPayload(order[first], p, h, clock)

\* buildResponse with the plan branch written before the thanks branch
buildResponse_PlanBeforeThanks(p, h, clock) ==
    FirstMatch(<< "greeting", "plan", "thanks", "farewell", "identity", "idea", "joke",
                  "weather", "time", "explain", "summary", "expand", "fallback" >>, p, h, clock)

\* buildResponse with the summary branch written before the greeting branch
buildResponse_SummaryBeforeGreeting(p, h, clock) ==
    FirstMatch(<< "summary", "greeting", "thanks", "farewell", "identity", "plan", "idea",
                  "joke", "weather", "time", "explain", "expand", "fallback" >>, p, h, clock)

\* clock is what now.toLocaleTimeString gives at the moment of the call
buildResponse(p, h, clock) ==
    LET normalized == toLowerCase(p)
    IN  IF isGreeting(normalized) THEN Payload(GreetingReply, GreetingSuggestions)
        ELSE IF isThanks(normalized) THEN Payload(ThanksReply, ThanksSuggestions)
        ELSE IF isFarewell(normalized) THEN Payload(FarewellReply, FarewellSuggestions)
        ELSE IF isIdentity(normalized) THEN Payload(IdentityReply, IdentitySuggestions)
        ELSE IF isPlan(normalized) THEN Payload(buildPlanResponse(p), PlanSuggestions)
        ELSE IF isIdea(normalized) THEN Payload(buildIdeasResponse(p), IdeaSuggestions)
        ELSE IF isJoke(normalized) THEN Payload(JokeReply, JokeSuggestions)
        ELSE IF isWeather(normalized) THEN Payload(WeatherReply, WeatherSuggestions)
        ELSE IF isTime(normalized) THEN Payload(TimeReply(clock), TimeSuggestions)
        ELSE IF isExplain(normalized) THEN Payload(ExplainReply, ExplainSuggestions)
        ELSE IF isSummary(normalized)
             THEN LET text == summarizeConversation(h)
                  IN  IF text = Fixed("(TypeError)") THEN Threw
                      ELSE Payload(text, SummarySuggestions)
        ELSE IF findLastThrows(h, "assistant") THEN Threw
        ELSE IF findLast(h, "assistant") # 0 /\ includes(normalized, kw_expand)
             THEN Payload(ExpandReply, ExpandSuggestions)
        ELSE Payload(FallbackReply(p), fallbackSuggestions)

(***************************************************************************)
(* Inputs                                                                  *)
(***************************************************************************)
MaxFragments == 2

\* what the prompts are put together from: the trigger words, a capitalised
\* one, white space, and a letter that glues to a word
Fragments ==
    { <<"H", "i", " ">>,
      <<"t", "h", "a", "n", "k", "s", " ">>,
      <<"b", "y", "e">>,
      <<"w", "h", "o", " ", "a", "r", "e", " ", "y", "o", "u">>,
      <<"P", "l", "a", "n">>,
      <<"i", "d", "e", "a", "s">>,
      <<"c", "o", "n", "c", "e", "p", "t">>,
      <<"j", "o", "k", "e">>,
      <<"w", "e", "a", "t", "h", "e", "r">>,
      <<"t", "i", "m", "e">>,
      <<"e", "x", "p", "l", "a", "i", "n">>,
      <<"r", "e", "c", "a", "p">>,
      <<"e", "x", "p", "a", "n", "d">>,
      <<" ">>,
      <<"x">>,
      <<" ", "a", "\n", " ", "b">> }

RECURSIVE Concatenations(_)
Concatenations(n) ==
    IF n = 0 THEN {<<>>}
    ELSE LET shorter == Concatenations(n - 1)
         IN  shorter \cup {f \o s : f \in Fragments, s \in shorter}

Prompts == Concatenations(MaxFragments)

txt_a == <<"a">>
txt_bc == <<" ", "b", " ", " ", "c">>
txt_ok == <<"o", "k">>

ResponderHistories ==
    { <<>>,
      <<ChatMessage("user", txt_a)>>,
      <<ChatMessage("user", txt_bc), ChatMessage("assistant", txt_ok), ChatMessage("user", txt_a)>> }

ClockReadings == { <<"9", ":", "0", "5">>, <<"1", "7", ":", "3", "0">> }

\* The bodies a request can carry.  json tells what request.json() gives:
\* "invalid" (it rejects), "null", "primitive" (a number, a string, a boolean)
\* or "object"; messages.type tells what body.messages is.
Body(json, type, items) == [json |-> json, messages |-> [type |-> type, items |-> items]]

IdleBody == Body("(none)", "absent", <<>>)

\* NextResponse.json(payload, { status })
Response(status, p) == [status |-> status, payload |-> p]

IdleResponse == Response(0, NoPayload)

(***************************************************************************)
(* POST                                                                    *)
(***************************************************************************)
MalformedReply == Fixed("I didn't catch that request. Can you share it again in plain text?")
ReadyReply == Fixed("I'm ready when you are")
SidewaysReply == Fixed("Something went sideways on my end.")

POST(b, clock) ==
    IF b.json = "invalid"
    THEN Response(500, Payload(SidewaysReply, fallbackSuggestions))
    ELSE IF b.json # "object" \/ b.messages.type # "array"
    THEN Response(400, Payload(MalformedReply, fallbackSuggestions))
    ELSE IF findLastThrows(b.messages.items, "user")
    THEN Response(500, Payload(SidewaysReply, fallbackSuggestions))
    ELSE
    LET lastUserMessage == findLast(b.messages.items, "user")
    IN  IF lastUserMessage = 0
        THEN Response(200, Payload(ReadyReply, fallbackSuggestions))
        ELSE IF b.messages.items[lastUserMessage].content.type # "string"
        THEN Response(500, Payload(SidewaysReply, fallbackSuggestions))
        ELSE LET built == buildResponse(b.messages.items[lastUserMessage].content.text,
                                        b.messages.items, clock)
             IN  IF built = Threw
                 THEN Response(500, Payload(SidewaysReply, fallbackSuggestions))
                 ELSE Response(200, built)

(***************************************************************************)
(* The page: its state before any call                                     *)
(***************************************************************************)
\* the text of a message of the page; the route's payload texts are not
\* looked into by the page
Message(role, content) == [role |-> role, content |-> content]

assistantGreeting == Message("assistant", <<"H", "e", "y", " ", "t", "h", "e", "r", "e", "!">>)

fallbackPrompts ==
    << <<"S", "u", "m", "m", "a", "r", "i", "z", "e", " ", "w", "h", "a", "t", " ", "w", "e", " ", "j", "u", "s", "t", " ", "d", "i", "s", "c", "u", "s", "s", "e", "d", ".">>,
       <<"G", "i", "v", "e", " ", "m", "e", " ", "t", "h", "r", "e", "e", " ", "c", "r", "e", "a", "t", "i", "v", "e", " ", "m", "a", "r", "k", "e", "t", "i", "n", "g", " ", "i", "d", "e", "a", "s", ".">>,
       <<"H", "e", "l", "p", " ", "m", "e", " ", "p", "l", "a", "n", " ", "a", " ", "p", "r", "o", "d", "u", "c", "t", "i", "v", "e", " ", "m", "o", "r", "n", "i", "n", "g", " ", "r", "o", "u", "t", "i", "n", "e", ".">>,
       <<"E", "x", "p", "l", "a", "i", "n", " ", "a", " ", "c", "o", "m", "p", "l", "e", "x", " ", "t", "o", "p", "i", "c", " ", "i", "n", " ", "s", "i", "m", "p", "l", "e", " ", "t", "e", "r", "m", "s", ".">> >>

Rendering(m, i, l, s) == [messages |-> m, input |-> i, isLoading |-> l, suggestions |-> s]

\* What a settled fetch gives: ok is FALSE when fetch rejects, response.ok is
\* false or response.json() rejects; otherwise reply and suggestions are the
\* fields of data (suggestions.present is FALSE when the field is absent).
Fetched(ok, reply, present, list) ==
    [ok |-> ok, reply |-> reply, suggestions |-> [present |-> present, list |-> list]]

NothingFetched == Fetched(FALSE, <<>>, FALSE, <<>>)

InitPage ==
    /\ messages = <<assistantGreeting>>
    /\ input = <<>>
    /\ isLoading = FALSE
    /\ suggestions = fallbackPrompts
    /\ rendered = Rendering(messages, input, isLoading, suggestions)
    /\ requests = <<>>
    /\ fetched = NothingFetched

\* the page is not mounted
NoPage ==
    /\ messages = <<>>
    /\ input = <<>>
    /\ isLoading = FALSE
    /\ suggestions = <<>>
    /\ rendered = Rendering(<<>>, <<>>, FALSE, <<>>)
    /\ requests = <<>>
    /\ fetched = NothingFetched

\* the route has not been called
InitRoute ==
    /\ prompt = <<>>
    /\ history = <<>>
    /\ now = <<>>
    /\ payload = NoPayload
    /\ summary = Fixed("(pending)")
    /\ body = IdleBody
    /\ response = IdleResponse

(***************************************************************************)
(* Responder: one call of buildResponse                                    *)
(***************************************************************************)
InitResponder ==
    /\ prompt \in Prompts
    /\ history \in ResponderHistories
    /\ now \in ClockReadings
    /\ payload = NoPayload
    /\ summary = Fixed("(pending)")
    /\ body = IdleBody
    /\ response = IdleResponse
    /\ NoPage

Respond ==
    /\ payload = NoPayload
    /\ payload' = buildResponse(prompt, history, now)
    /\ UNCHANGED <<prompt, history, now, summary, body, response>>
    /\ UNCHANGED pageVars

NextResponder == Respond

SpecResponder == InitResponder /\ [][NextResponder]_vars

(***************************************************************************)
(* Summarizer: one call of summarizeConversation                           *)
(***************************************************************************)
MaxHistory == 5

txt_d == <<"d", "\n">>

SummarizerMessages ==
    { ChatMessage("user", txt_a), ChatMessage("user", txt_bc), ChatMessage("user", txt_d),
      ChatMessage("assistant", txt_ok) }

SequencesUpTo(S, n) == UNION {[1..k -> S] : k \in 0..n}

InitSummarizer ==
    /\ history \in SequencesUpTo(SummarizerMessages, MaxHistory)
    /\ summary = Fixed("(pending)")
    /\ prompt = <<>>
    /\ now = <<>>
    /\ payload = NoPayload
    /\ body = IdleBody
    /\ response = IdleResponse
    /\ NoPage

Summarize ==
    /\ summary = Fixed("(pending)")
    /\ summary' = summarizeConversation(history)
    /\ UNCHANGED <<prompt, history, now, payload, body, response>>
    /\ UNCHANGED pageVars

NextSummarizer == Summarize

SpecSummarizer == InitSummarizer /\ [][NextSummarizer]_vars

(***************************************************************************)
(* Endpoint: one call of POST                                              *)
(***************************************************************************)
MaxEntries == 3

txt_joke == <<"a", " ", "j", "o", "k", "e">>

\* valid messages, and entries that are not messages: null, {}, a user entry
\* without content, a user entry whose content is a number
EndpointEntries ==
    { ChatMessage("user", txt_joke), ChatMessage("user", kw_recap),
      ChatMessage("user", kw_expand), ChatMessage("user", kw_time),
      ChatMessage("assistant", txt_ok),
      Entry("null", "undefined", "undefined", <<>>),
      Entry("object", "undefined", "undefined", <<>>),
      Entry("object", "user", "undefined", <<>>),
      Entry("object", "user", "number", <<>>) }

Bodies ==
    { Body("invalid", "absent", <<>>), Body("null", "absent", <<>>),
      Body("primitive", "absent", <<>>), Body("object", "absent", <<>>),
      Body("object", "string", <<>>) }
    \cup {Body("object", "array", items) : items \in SequencesUpTo(EndpointEntries, MaxEntries)}

InitEndpoint ==
    /\ body \in Bodies
    /\ now \in ClockReadings
    /\ response = IdleResponse
    /\ prompt = <<>>
    /\ history = <<>>
    /\ payload = NoPayload
    /\ summary = Fixed("(pending)")
    /\ NoPage

Post ==
    /\ response = IdleResponse
    /\ response' = POST(body, now)
    /\ UNCHANGED <<prompt, history, now, payload, summary, body>>
    /\ UNCHANGED pageVars

NextEndpoint == Post

SpecEndpoint == InitEndpoint /\ [][NextEndpoint]_vars

(***************************************************************************)
(* Page: the chat page, its user and its fetches                           *)
(***************************************************************************)
MaxTurns == 2

txt_more == <<"M", "o", "r", "e">>

\* what the user types into the textarea
TypedInputs == { <<" ">>, <<" ", "h", "i", "\n">> }

\* what an ok response carries
FetchedData ==
    { Fetched(TRUE, txt_ok, present, list) :
        present \in BOOLEAN, list \in {<<>>, <<txt_more>>} }
    \ {Fetched(TRUE, txt_ok, FALSE, <<txt_more>>)}

hiccup == <<"I", " ", "r", "a", "n", " ", "i", "n", "t", "o", " ", "a", " ",
            "h", "i", "c", "c", "u", "p">>

\* React renders at the end of a discrete event (a key, a click, a submit):
\* the render shows the state the event set (fields); an update queued by a
\* promise callback and not rendered yet may or may not be shown with it.
RenderedAfterEvent(fields) ==
    { Rendering(messages', input', isLoading', suggestions'),
      Rendering(IF "messages" \in fields THEN messages' ELSE rendered.messages,
                IF "input" \in fields THEN input' ELSE rendered.input,
                IF "isLoading" \in fields THEN isLoading' ELSE rendered.isLoading,
                rendered.suggestions) }

\* onChange={(event) => setInput(event.target.value)}
ChangeInput ==
    \E value \in TypedInputs :
        /\ input' = value
        /\ UNCHANGED <<messages, isLoading, suggestions, requests, fetched>>
        /\ rendered' \in RenderedAfterEvent({"input"})
        /\ UNCHANGED routeVars

\* onClick of a suggestion pill: setInput(prompt)
ClickSuggestion ==
    \E k \in 1..Len(rendered.suggestions) :
        /\ input' = rendered.suggestions[k]
        /\ UNCHANGED <<messages, isLoading, suggestions, requests, fetched>>
        /\ rendered' \in RenderedAfterEvent({"input"})
        /\ UNCHANGED routeVars

\* the guard of sendMessage without its isLoading test
sendMessageReturnsEarly_IgnoresLoading(content, loading) == trim(content) = <<>>

\* if (!trimmedContent || isLoading) return;
sendMessageReturnsEarly(content, loading) == trim(content) = <<>> \/ loading

\* handleSubmit and handleKeyDown (Enter) call sendMessage(input) of the last
\* render; here it returns at once
SubmitIgnored ==
    /\ sendMessageReturnsEarly(rendered.input, rendered.isLoading)
    /\ UNCHANGED vars

\* sendMessage up to its first await
SubmitAccepted ==
    /\ ~sendMessageReturnsEarly(rendered.input, rendered.isLoading)
    /\ Len(rendered.messages) < 1 + 2 * MaxTurns
    /\ LET userMessage == Message("user", trim(rendered.input))
           sent == Append(rendered.messages, userMessage)
       IN  /\ input' = <<>>
           /\ messages' = sent
           /\ isLoading' = TRUE
           /\ requests' = Append(requests, sent)
    /\ UNCHANGED <<suggestions, fetched>>
    /\ rendered' \in RenderedAfterEvent({"input", "messages", "isLoading"})
    /\ UNCHANGED routeVars

\* the choice of the suggestions without its length test
nextSuggestions_NoLengthTest(data) ==
    IF data.suggestions.present THEN data.suggestions.list ELSE fallbackPrompts

\* data.suggestions && data.suggestions.length > 0 ? data.suggestions : fallbackPrompts
nextSuggestions(data) ==
    IF data.suggestions.present /\ Len(data.suggestions.list) > 0
    THEN data.suggestions.list
    ELSE fallbackPrompts

RemoveAt(s, k) == SubSeq(s, 1, k - 1) \o SubSeq(s, k + 1, Len(s))

\* sendMessage after its awaits, the response being ok: the try block, then finally
FetchOk ==
    \E k \in 1..Len(requests) : \E data \in FetchedData :
        /\ requests' = RemoveAt(requests, k)
        /\ fetched' = data
        /\ messages' = Append(messages, Message("assistant", data.reply))
        /\ suggestions' = nextSuggestions(data)
        /\ isLoading' = FALSE
        /\ UNCHANGED <<input, rendered>>
        /\ UNCHANGED routeVars

\* sendMessage after fetch rejected, the response was not ok, or its JSON did
\* not parse: the catch block, then finally
FetchFailed ==
    \E k \in 1..Len(requests) :
        /\ requests' = RemoveAt(requests, k)
        /\ fetched' = NothingFetched
        /\ messages' = Append(messages, Message("assistant", hiccup))
        /\ isLoading' = FALSE
        /\ UNCHANGED <<input, suggestions, rendered>>
        /\ UNCHANGED routeVars

\* the render React scheduled for the updates of a promise callback
Render ==
    /\ rendered # Rendering(messages, input, isLoading, suggestions)
    /\ rendered' = Rendering(messages, input, isLoading, suggestions)
    /\ UNCHANGED <<messages, input, isLoading, suggestions, requests, fetched>>
    /\ UNCHANGED routeVars

Settle == FetchOk \/ FetchFailed

NextPage ==
    \/ ChangeInput
    \/ ClickSuggestion
    \/ SubmitIgnored
    \/ SubmitAccepted
    \/ FetchOk
    \/ FetchFailed
    \/ Render

InitPageSpec == InitRoute /\ InitPage

\* a fetch settles: it resolves or it rejects
SpecPage == InitPageSpec /\ [][NextPage]_vars /\ WF_vars(Settle)

(***************************************************************************)
(* Properties                                                              *)
(***************************************************************************)
returned == payload # NoPayload

hasAssistant(h) == \E i \in 1..Len(h) : h[i].role = "assistant"

\* one of the eleven predicates that come before the expand follow-up holds
earlierMatched(n) ==
    \E i \in 1..11 : BranchHolds(BranchOrder[i], n, <<>>)

\* the maximal runs of characters that are not white space, in order
RECURSIVE Words(_)
Words(s) ==
    IF s = <<>> THEN <<>>
    ELSE IF Head(s) \in WhiteSpace THEN Words(Tail(s))
    ELSE LET stops == {i \in 1..Len(s) : s[i] \in WhiteSpace}
             end == IF stops = {} THEN Len(s) + 1 ELSE MinOf(stops)
         IN  <<SubSeq(s, 1, end - 1)>> \o Words(SubSeq(s, end, Len(s)))

\* trimmed, and every inner run of white space collapsed to one space
Normalized(s) == join(Words(s), <<" ">>)

\* C1: the payload returned is that of the first branch, in the order
\* greeting, thanks, farewell, identity, plan, idea, joke, weather, time,
\* explain, summary, expand follow-up, fallback, whose condition the
\* lower-cased text satisfies; a text that satisfies both the thanks and the
\* plan predicate never gets the Plan reply, and gets the Thanks reply unless
\* it is a greeting as well.
C1_FirstMatchWins ==
    returned =>
        LET n == toLowerCase(prompt)
        IN  /\ payload = FirstMatch(BranchOrder, prompt, history, now)
            /\ isThanks(n) /\ isPlan(n) =>
                 /\ payload # Payload(buildPlanResponse(prompt), PlanSuggestions)
                 /\ ~isGreeting(n) => payload = Payload(ThanksReply, ThanksSuggestions)

\* C1 witness: a text matching the thanks and the plan predicate got the Thanks reply
C1_Witness ==
    /\ returned
    /\ isThanks(toLowerCase(prompt))
    /\ isPlan(toLowerCase(prompt))
    /\ payload = Payload(ThanksReply, ThanksSuggestions)

\* what C5 says the focus is: every occurrence of the branch's own trigger
\* keywords removed, white space collapsed, trimmed
ClaimedFocus(p, keywords) == Normalized(replaceAllIgnoreCase(p, keywords))

PlanTriggers == <<kw_plan, kw_schedule, kw_timeline, kw_roadmap>>
IdeaTriggers == <<kw_ideas, kw_idea, kw_brainstorm, kw_concept>>

FocusAsClaimed(reply, p, keywords) ==
    LET focus == ClaimedFocus(p, keywords)
    IN  /\ reply.arg = focus
        /\ reply.clause = (focus # <<>>)
        /\ ClaimedFocus(focus, keywords) = focus

\* C5 (as the spec states it): in the Plan and in the Idea branch the focus
\* of the reply is the input with the branch's own trigger keywords removed,
\* white space collapsed and trimmed; the clause is left out exactly when
\* that remainder is empty; extracting again changes nothing.
C5_FocusExtraction ==
    returned =>
        /\ payload.suggestions = PlanSuggestions =>
              FocusAsClaimed(payload.reply, prompt, PlanTriggers)
        /\ payload.suggestions = IdeaSuggestions =>
              FocusAsClaimed(payload.reply, prompt, IdeaTriggers)

\* C6: a text that satisfies none of the predicates and is no expand
\* follow-up gets, whatever the history, the Fallback payload: the sanitized
\* text (trimmed, inner white space collapsed) in the fallback template, with
\* the default suggestions; and buildResponse never throws.
C6_FallbackIsTotal ==
    returned =>
        LET n == toLowerCase(prompt)
        IN  /\ payload # Threw
            /\ ~earlierMatched(n) /\ ~(includes(n, kw_expand) /\ hasAssistant(history)) =>
                 payload = Payload(Reply("Here's what I'm picking up", TRUE, Normalized(prompt)),
                                   fallbackSuggestions)

\* C6 witness: a fallback whose text lost white space to sanitize
C6_Witness ==
    /\ returned
    /\ payload.suggestions = fallbackSuggestions
    /\ payload.reply.arg # <<>>
    /\ Len(payload.reply.arg) + 2 <= Len(prompt)
    /\ \E i \in 1..Len(payload.reply.arg) : payload.reply.arg[i] = " "

\* C7: the Expand reply is returned exactly when none of the eleven earlier
\* predicates matched, the text contains "expand" and the history has an
\* assistant entry; with no assistant entry such a text gets the Fallback
\* payload; a text with "expand" that matches an earlier predicate gets that
\* earlier branch's payload.
C7_ExpandFollowUp ==
    returned =>
        LET n == toLowerCase(prompt)
            says == includes(n, kw_expand)
        IN  /\ payload = Payload(ExpandReply, ExpandSuggestions)
                 <=> (~earlierMatched(n) /\ says /\ hasAssistant(history))
            /\ says /\ ~earlierMatched(n) /\ ~hasAssistant(history) =>
                 payload = Payload(FallbackReply(prompt), fallbackSuggestions)
            /\ says /\ earlierMatched(n) =>
                 payload = FirstMatch(SubSeq(BranchOrder, 1, 11), prompt, history, now)

\* C7 witness: an expand follow-up after an assistant turn
C7_Witness ==
    /\ returned
    /\ includes(toLowerCase(prompt), kw_expand)
    /\ hasAssistant(history)
    /\ payload = Payload(ExpandReply, ExpandSuggestions)

\* C9: a text that matches the greeting predicate gets the fixed greeting
\* reply and its three suggestions, whatever the history.
C9_GreetingIgnoresHistory ==
    returned /\ isGreeting(toLowerCase(prompt)) =>
        /\ payload = Payload(GreetingReply, GreetingSuggestions)
        /\ Len(payload.suggestions) = 3

\* C9 witness: a greeting that also asks for a recap, with a history of
\* three entries
C9_Witness ==
    /\ returned
    /\ isGreeting(toLowerCase(prompt))
    /\ isSummary(toLowerCase(prompt))
    /\ Len(history) = 3
    /\ payload.reply = GreetingReply

summarized == summary # Fixed("(pending)")

userPlaces(h) == {i \in 1..Len(h) : h[i].role = "user"}

\* the place in h of its m-th user entry
NthUser(h, m) ==
    CHOOSE i \in userPlaces(h) : Cardinality({u \in userPlaces(h) : u <= i}) = m

\* C4: the summary lists exactly the last min(3, n) user entries of the
\* history, oldest first, numbered 1..k, assistant entries ignored; with no
\* user entry it is the fixed "exploring" message.
C4_LastThreeUserTurns ==
    summarized =>
        LET n == Cardinality(userPlaces(history))
            k == IF n < 3 THEN n ELSE 3
            line(j) == <<DecimalDigit[j], ".", " ">>
                       \o Normalized(history[NthUser(history, n - k + j)].content.text)
        IN  IF n = 0
            THEN summary = Fixed("You've mostly been exploring the assistant's features so far.")
            ELSE summary = Reply("Here's what I'm tracking", TRUE,
                                 join([j \in 1..k |-> line(j)], <<"\n">>))

\* C4 witness: four user turns, the first unlike the second, around an
\* assistant turn, summarized
C4_Witness ==
    /\ summarized
    /\ Len(history) = 5
    /\ Cardinality(userPlaces(history)) = 4
    /\ history[1].role = "user"
    /\ history[2].role = "assistant"
    /\ history[1].content # history[3].content
    /\ history[3].content # history[4].content
    /\ summary.clause

posted == response # IdleResponse

\* body.messages is a sequence of Message
hasMessages(b) ==
    /\ b.json = "object"
    /\ b.messages.type = "array"
    /\ \A i \in 1..Len(b.messages.items) : IsChatMessage(b.messages.items[i])

\* C2 (as the spec states it): a payload whose messages field is absent, not
\* an array, or an array with entries that are not Messages is answered with
\* 400, the "didn't catch that" reply and the default suggestions.
C2_MalformedIs400 ==
    posted /\ body.json # "invalid" /\ ~hasMessages(body) =>
        response = Response(400, Payload(MalformedReply, fallbackSuggestions))

\* C3: with a valid messages sequence, no user entry gives 200 and the "ready
\* when you are" reply with the default suggestions; otherwise the response
\* is 200 with the payload of buildResponse for the text of the last user
\* entry and the whole sequence.
C3_LastUserTurn ==
    posted /\ hasMessages(body) =>
        LET items == body.messages.items
            users == userPlaces(items)
        IN  IF users = {}
            THEN response = Response(200, Payload(ReadyReply, fallbackSuggestions))
            ELSE \E i \in users :
                    /\ \A j \in users : j <= i
                    /\ response = Response(200, buildResponse(items[i].content.text, items, now))

\* C3 witness: two unlike user turns, then an assistant turn, answered
C3_Witness ==
    /\ posted
    /\ hasMessages(body)
    /\ Len(body.messages.items) = 3
    /\ body.messages.items[1].role = "user"
    /\ body.messages.items[2].role = "user"
    /\ body.messages.items[3].role = "assistant"
    /\ body.messages.items[1].content.text = kw_recap
    /\ body.messages.items[2].content.text = txt_joke
    /\ response = Response(200, Payload(JokeReply, JokeSuggestions))

\* a fetch settled in this step
settles == Len(requests') < Len(requests)

\* C8: when a request gets an ok response, its reply is appended as one
\* assistant message after the messages held, and the suggestions become
\* those of the response if present and not empty, else fallbackPrompts.
C8_ReplyAppended ==
    [][settles /\ fetched'.ok =>
          /\ messages' = Append(messages, Message("assistant", fetched'.reply))
          /\ suggestions' = IF fetched'.suggestions.present /\ fetched'.suggestions.list # <<>>
                            THEN fetched'.suggestions.list
                            ELSE fallbackPrompts]_vars

\* C8 witness: the second reply came with an empty suggestions list, after a
\* first one had replaced the suggestions
C8_Witness ==
    /\ Len(messages) = 5
    /\ fetched.ok
    /\ fetched.suggestions.present
    /\ fetched.suggestions.list = <<>>
    /\ messages[5] = Message("assistant", fetched.reply)
    /\ suggestions = fallbackPrompts
    /\ rendered.suggestions = <<txt_more>>

IsPrefix(s, t) == Len(s) <= Len(t) /\ SubSeq(t, 1, Len(s)) = s

\* at most one request is outstanding; after the greeting, user and
\* assistant messages alternate, a user message being last exactly while
\* the request is outstanding and isLoading is set
OneAtATime ==
    /\ Len(requests) <= 1
    /\ messages[1] = assistantGreeting
    /\ \A i \in 2..Len(messages) :
          messages[i].role = (IF i % 2 = 0 THEN "user" ELSE "assistant")
    /\ isLoading <=> Len(requests) = 1
    /\ isLoading <=> Len(messages) % 2 = 0

\* a step changes the messages, sends a request or sets isLoading only as an
\* accepted submit or a settled fetch does
SubmitOrSettle ==
    /\ (isLoading \/ trim(input) = <<>>) /\ ~settles => UNCHANGED <<messages, suggestions, isLoading, requests>>
    /\ Len(requests') > Len(requests) =>
          /\ messages' = Append(messages, Message("user", trim(input)))
          /\ requests' = <<messages'>>
          /\ isLoading'
          /\ UNCHANGED suggestions
    /\ settles =>
          /\ ~isLoading'
          /\ messages' = Append(messages,
                                Message("assistant", IF fetched'.ok THEN fetched'.reply ELSE hiccup))
          /\ ~fetched'.ok => UNCHANGED suggestions
    /\ IsPrefix(messages, messages')
    /\ Len(messages') <= Len(messages) + 1

\* C10: at most one request is outstanding; a submit of blank input or while
\* isLoading changes nothing; an accepted submit appends one user message and
\* sets isLoading, and is eventually followed by one appended assistant
\* message (the reply, or the hiccup text with the suggestions unchanged) and
\* isLoading false; messages are never lost or duplicated and alternate.
C10_OneRequestAtATime ==
    /\ []OneAtATime
    /\ [][SubmitOrSettle]_vars
    /\ (isLoading ~> ~isLoading)

\* C10 witness: a failed turn, then a turn that got its reply
C10_Witness ==
    /\ Len(messages) = 5
    /\ messages[3] = Message("assistant", hiccup)
    /\ messages[4].role = "user"
    /\ messages[5] = Message("assistant", txt_ok)
    /\ fetched.ok
    /\ ~isLoading
    /\ requests = <<>>

====
